---- MODULE Spec2Model ----
(***************************************************************************)
(* The lambda-F risk dashboard (src/lambda_f_panel.py): a Streamlit script *)
(* that reads the 30 most recent documents of the Firestore collection     *)
(* "lambdaF" through a function cached for 600 seconds, and renders the    *)
(* newest score, its change, the stored status, a chart and a table.       *)
(*                                                                         *)
(* lambda_F values are modelled in thousandths (500 is 0.5), timestamps as *)
(* integer instants, a DataFrame as the sequence of its rows.              *)
(***************************************************************************)
EXTENDS Integers, Sequences, FiniteSets, Bags, TLC

VARIABLES
    store,      \* the documents of collection "lambdaF" (a bag)
    clock,      \* wall-clock seconds, the timer of the cache
    cache,      \* st.cache_data's entry for fetch_lambda_f_data: <<>> or <<entry>>
    lastRun,    \* the operation that ran last: "none", "render", "refresh", "fetch"
    history,    \* df_history of the last run: what fetch_lambda_f_data returned
    queried,    \* the last fetch call ran the store query (line 45)
    diag,       \* the last fetch call showed st.error (line 66), live or replayed
    raised,     \* an exception escaped during the last run
    view,       \* what the last script run displayed
    snapshot,   \* the store as it was when the cached value was computed
    docs,       \* the documents the query of that computation returned
    computedAt, \* when the function body last ran to its end; None when it never
                \* did, or the cache was cleared since
    fresh,      \* a value computed less than TTL seconds before the last call,
                \* with no invalidation since, existed when that call was made
    lastGood,   \* <<v>>: v is the value of the most recent fetch whose query
                \* and conversion succeeded; <<>> when there is none
    lastValue,  \* the value the function body returned when it last ran
    queryFailed \* the store did not answer the last query sent

vars == <<store, clock, cache, lastRun, history, queried, diag, raised, view,
          snapshot, docs, computedAt, fresh, lastGood, lastValue, queryFailed>>

----------------------------------------------------------------------------
(* Program constants *)

\* .limit(30)
QueryLimit == 30

\* @st.cache_data(ttl=600)
TTL == 600

\* Python's None: what doc_data.get(...) gives for a null field.
None == -1

\* doc_data.get("status", "N/A") when the document has no status field.
DefaultStatus == "N/A"

----------------------------------------------------------------------------
(* Bounds of the model *)

\* Documents written to the store besides the initial ones.
MaxWrites == 1

\* Clock advances.
MaxTicks == 2

\* One clock advance: half a TTL, so that ages 0, TTL/2, TTL, ... occur.
ClockStep == TTL \div 2

MaxClock == MaxTicks * ClockStep

\* A timestamp value pd.to_datetime cannot parse (a string that is no date).
\* Firestore orders strings after timestamps, so it is the greatest.
BadTs == 9

\* The status field is missing from the document.
NoStatus == "<missing>"

\* The documents a writer may add. Documents without a timestamp field are
\* not matched by a query ordered by timestamp and are left out; a null
\* timestamp (None) is matched and ordered first (last, descending).
Documents == {
    \* null timestamp
    [timestamp |-> None,  lambda_F |-> 500,  status |-> NoStatus],
    \* as old as the oldest established document: null score, and two valid
    \* documents with the same timestamp
    [timestamp |-> 1,     lambda_F |-> None, status |-> "Kritik"],
    [timestamp |-> 1,     lambda_F |-> 500,  status |-> NoStatus],
    [timestamp |-> 1,     lambda_F |-> 900,  status |-> "Kritik"],
    \* as new as the newest established document
    [timestamp |-> 3,     lambda_F |-> 500,  status |-> "Kritik"],
    \* newer than the established documents: null score, and three valid
    \* documents with the same timestamp whose status and score disagree
    [timestamp |-> 4,     lambda_F |-> None, status |-> NoStatus],
    [timestamp |-> 4,     lambda_F |-> 500,  status |-> "Kritik"],
    [timestamp |-> 4,     lambda_F |-> 900,  status |-> NoStatus],
    [timestamp |-> 4,     lambda_F |-> 900,  status |-> "Critical"],
    \* unparsable timestamp, with and without a score
    [timestamp |-> BadTs, lambda_F |-> 500,  status |-> NoStatus],
    [timestamp |-> BadTs, lambda_F |-> None, status |-> NoStatus]}

\* An established store: as many documents as the limit, so that every
\* further document pushes one out of the query. One is older and one is
\* newer than the others, and one has no score.
FillerDoc == [timestamp |-> 2, lambda_F |-> 700, status |-> "Riskli"]

OldestDoc == [timestamp |-> 1, lambda_F |-> 500, status |-> "Normal"]

NewestDoc == [timestamp |-> 3, lambda_F |-> 900, status |-> "Kritik"]

NoScoreDoc == [timestamp |-> 2, lambda_F |-> None, status |-> NoStatus]

EstablishedStore ==
    [d \in {FillerDoc, OldestDoc, NewestDoc, NoScoreDoc} |->
        IF d = FillerDoc THEN QueryLimit - 3 ELSE 1]

Clients == {"client", "None"}

----------------------------------------------------------------------------
(* fetch_lambda_f_data *)

Min(a, b) == IF a < b THEN a ELSE b

\* collection("lambdaF").order_by("timestamp", DESCENDING).limit(30): the
\* possible results. Which of several documents with the same timestamp
\* falls inside the limit is the store's choice.
\* The documents of s with the greatest timestamp.
Newest(s) ==
    LET top == {e \in DOMAIN s : \A f \in DOMAIN s : e.timestamp >= f.timestamp}
    IN  [e \in top |-> s[e]]

\* The n first documents of s in descending timestamp order.
RECURSIVE Limit(_, _)
Limit(s, n) ==
    IF n = 0 \/ s = EmptyBag THEN {EmptyBag}
    ELSE LET g == Newest(s)
         IN  IF BagCardinality(g) <= n
             THEN {g (+) r : r \in Limit(s (-) g, n - BagCardinality(g))}
             ELSE {q \in SubBag(g) : BagCardinality(q) = n}

\* Faulty variant: the query without its limit.
QueryNoLimit(s) == {s}

Query(s) == Limit(s, QueryLimit)

\* Lines 49-54: one row per document.
ToRow(d) ==
    [timestamp |-> d.timestamp,
     lambda_F  |-> d.lambda_F,
     status    |-> IF d.status = NoStatus THEN DefaultStatus ELSE d.status]

\* Faulty variant: only the timestamp is required.
DropNaTimestampOnly(rows) ==
    [r \in {x \in DOMAIN rows : x.timestamp # None} |-> rows[r]]

\* df.dropna(subset=['timestamp', 'lambda_F'])
DropNa(rows) ==
    [r \in {x \in DOMAIN rows : x.timestamp # None /\ x.lambda_F # None}
        |-> rows[r]]

\* pd.to_datetime(df["timestamp"]) raises on a value it cannot parse. A value
\* it can parse becomes the datetime of the same instant, here the same
\* integer, so the order of the rows is that of the stored timestamps.
ToDatetimeRaises(rows) == \E r \in DOMAIN rows : r.timestamp = BadTs

\* df.sort_values(by="timestamp", ascending=True).reset_index(drop=True): the
\* possible row orders. The default sort is not stable: rows with equal
\* timestamps come in any order.
RECURSIVE Arrange(_, _)
Arrange(rows, ascending) ==
    IF rows = EmptyBag THEN {<<>>}
    ELSE LET first == {e \in DOMAIN rows :
                         \A f \in DOMAIN rows :
                            IF ascending THEN e.timestamp <= f.timestamp
                                         ELSE e.timestamp >= f.timestamp}
         IN  UNION {{<<e>> \o t : t \in Arrange(rows (-) SetToBag({e}), ascending)}
                        : e \in first}

\* Faulty variant: ascending=False.
SortValuesDescending(rows) == Arrange(rows, FALSE)

SortValues(rows) == Arrange(rows, TRUE)

\* Faulty variant: no except clause.
ExceptPropagates == [value |-> <<>>, diag |-> FALSE, raised |-> TRUE]

\* Lines 65-67: the except clause turns an exception into a diagnostic
\* and an empty DataFrame.
Except == [value |-> <<>>, diag |-> TRUE, raised |-> FALSE]

\* The results the body can produce (lines 41-67) for a client, a store and
\* a store that answers (ok) or fails: the returned value, whether st.error
\* was called, whether an exception escaped, whether the query was sent and
\* the documents it returned.
fetch_lambda_f_data(client, s, ok) ==
    IF client = "None"
    THEN {[value |-> <<>>, diag |-> FALSE, raised |-> FALSE,
           queried |-> FALSE, docs |-> EmptyBag, good |-> FALSE]}
    ELSE IF ~ok
    THEN {[value |-> Except.value, diag |-> Except.diag, raised |-> Except.raised,
           queried |-> TRUE, docs |-> EmptyBag, good |-> FALSE]}
    ELSE UNION {
        LET data == BagOfAll(ToRow, q)
            df   == DropNa(data)
        IN  IF data = EmptyBag
            THEN {[value |-> <<>>, diag |-> FALSE, raised |-> FALSE,
                   queried |-> TRUE, docs |-> q, good |-> TRUE]}
            ELSE IF ToDatetimeRaises(df)
            THEN {[value |-> Except.value, diag |-> Except.diag,
                   raised |-> Except.raised,
                   queried |-> TRUE, docs |-> q, good |-> FALSE]}
            ELSE {[value |-> h, diag |-> FALSE, raised |-> FALSE,
                   queried |-> TRUE, docs |-> q, good |-> TRUE]
                    : h \in SortValues(df)}
        : q \in Query(s)}

----------------------------------------------------------------------------
(* The cache around fetch_lambda_f_data (line 35) *)

\* Faulty variant: no ttl.
CacheHitNoExpiry(c, now) == c # <<>>

\* An entry is served until ttl seconds after it was stored. The argument
\* _db_client starts with an underscore and is no part of the cache key.
CacheHit(c, now) == c # <<>> /\ now < c[1].storedAt + TTL

\* What is known of the past computations.
Ghost == [snapshot |-> snapshot, docs |-> docs, computedAt |-> computedAt,
          lastGood |-> lastGood, lastValue |-> lastValue,
          queryFailed |-> queryFailed]

\* A call of the cached function with cache c: the values it can return and
\* what it leaves behind. A hit replays the st.error of the cached run; a
\* miss runs the body and stores its value, unless it raised.
Call(client, ok, c, g) ==
    LET wasFresh == g.computedAt # None /\ clock - g.computedAt < TTL
    IN  IF CacheHit(c, clock)
        THEN {[cache |-> c, history |-> c[1].value, queried |-> FALSE,
               diag |-> c[1].diag, raised |-> FALSE,
               snapshot |-> g.snapshot, docs |-> g.docs,
               computedAt |-> g.computedAt, fresh |-> wasFresh,
               lastGood |-> g.lastGood, lastValue |-> g.lastValue,
               queryFailed |-> g.queryFailed]}
        ELSE {[cache |-> IF r.raised THEN <<>>
                         ELSE <<[value |-> r.value, storedAt |-> clock,
                                 diag |-> r.diag]>>,
               history |-> r.value, queried |-> r.queried,
               diag |-> r.diag, raised |-> r.raised,
               snapshot |-> store, docs |-> r.docs,
               computedAt |-> IF r.raised THEN None ELSE clock,
               fresh |-> wasFresh,
               lastGood |-> IF r.good THEN <<r.value>> ELSE g.lastGood,
               lastValue |-> IF r.raised THEN g.lastValue ELSE r.value,
               queryFailed |-> IF r.queried THEN ~ok ELSE g.queryFailed]
                : r \in fetch_lambda_f_data(client, store, ok)}

----------------------------------------------------------------------------
(* The page (lines 108-189) *)

\* Faulty variant: the level taken from the score.
StatusLevelByScore(status, lam) ==
    IF lam > 700 THEN "error" ELSE IF lam > 500 THEN "warning" ELSE "success"

\* Lines 138-143: st.error, st.warning or st.success.
StatusLevel(status, lam) ==
    IF status = "Kritik" THEN "error"
    ELSE IF status = "Riskli" THEN "warning"
    ELSE "success"

\* Faulty variant: iloc[0] for iloc[-2].
DeltaFromFirst(df) ==
    df[Len(df)].lambda_F - (IF Len(df) > 1 THEN df[1].lambda_F ELSE 0)

\* Lines 117-123 on a non-empty frame.
Delta(df) ==
    df[Len(df)].lambda_F - (IF Len(df) > 1 THEN df[Len(df) - 1].lambda_F ELSE 0)

\* Faulty variant: no test of df.empty.
MetricsNoGuard(df) ==
    IF df = <<>>
    THEN [metric |-> <<>>, warning |-> FALSE, raised |-> TRUE]
    ELSE [metric |-> <<[value  |-> df[Len(df)].lambda_F,
                        delta  |-> Delta(df),
                        status |-> df[Len(df)].status,
                        level  |-> StatusLevel(df[Len(df)].status,
                                               df[Len(df)].lambda_F)]>>,
          warning |-> FALSE, raised |-> FALSE]

\* Lines 115-147: the metrics, or the warning that there is no data.
\* df.iloc[-1] of an empty frame raises IndexError.
Metrics(df) ==
    IF df # <<>>
    THEN [metric |-> <<[value  |-> df[Len(df)].lambda_F,
                        delta  |-> Delta(df),
                        status |-> df[Len(df)].status,
                        level  |-> StatusLevel(df[Len(df)].status,
                                               df[Len(df)].lambda_F)]>>,
          warning |-> FALSE, raised |-> FALSE]
    ELSE [metric |-> <<>>, warning |-> TRUE, raised |-> FALSE]

\* Lines 72-101: None for an empty frame, else the line of (timestamp,
\* lambda_F) points with the two threshold lines and the y range.
create_time_series_chart(df) ==
    IF df = <<>> THEN <<>>
    ELSE <<[points |-> [i \in 1..Len(df) |-> <<df[i].timestamp, df[i].lambda_F>>],
            hlines |-> {700, 500}, yrange |-> <<0, 1000>>]>>

\* Nothing below the caption is displayed.
BlankView == [metric |-> <<>>, warning |-> FALSE, chart |-> <<>>,
              chartInfo |-> FALSE, table |-> FALSE, tableInfo |-> FALSE]

\* One run of the script from line 108 to line 189 with cache c: the call of
\* line 112, then the metrics, the chart tab and the table tab. An exception
\* ends the run where it is raised.
Script(ok, c, g) ==
    {LET m  == Metrics(f.history)
         ch == create_time_series_chart(f.history)
     IN  [f EXCEPT
            !.raised = f.raised \/ m.raised,
            !.view = IF f.raised THEN BlankView
                     ELSE IF m.raised THEN [BlankView EXCEPT !.metric = m.metric]
                     ELSE [metric    |-> m.metric,
                           warning   |-> m.warning,
                           chart     |-> ch,
                           chartInfo |-> ch = <<>>,
                           table     |-> f.history # <<>>,
                           tableInfo |-> f.history = <<>>]]
        : f \in {[x \in DOMAIN r \cup {"view"} |->
                    IF x = "view" THEN BlankView ELSE r[x]]
                    : r \in Call("client", ok, c, g)}}

----------------------------------------------------------------------------
(* Operations *)

Init ==
    /\ store \in {EmptyBag, EstablishedStore}
    /\ clock = 0
    /\ cache = <<>>
    /\ lastRun = "none"
    /\ history = <<>>
    /\ queried = FALSE
    /\ diag = FALSE
    /\ raised = FALSE
    /\ view = BlankView
    /\ snapshot = EmptyBag
    /\ docs = EmptyBag
    /\ computedAt = None
    /\ fresh = FALSE
    /\ lastGood = <<>>
    /\ lastValue = <<>>
    /\ queryFailed = FALSE

Writes ==
    BagCardinality(store)
      - (IF BagIn(FillerDoc, store) THEN BagCardinality(EstablishedStore) ELSE 0)

\* The scoring process adds a document to the collection.
StoreWrite(d) ==
    /\ Writes < MaxWrites
    /\ store' = store (+) SetToBag({d})
    /\ UNCHANGED <<clock, cache, lastRun, history, queried, diag, raised, view,
                   snapshot, docs, computedAt, fresh, lastGood, lastValue, queryFailed>>

\* Time passes.
Tick ==
    /\ clock < MaxClock
    /\ clock' = clock + ClockStep
    /\ UNCHANGED <<store, cache, lastRun, history, queried, diag, raised, view,
                   snapshot, docs, computedAt, fresh, lastGood, lastValue, queryFailed>>

Display(r, op) ==
    /\ cache' = r.cache
    /\ lastRun' = op
    /\ history' = r.history
    /\ queried' = r.queried
    /\ diag' = r.diag
    /\ raised' = r.raised
    /\ view' = r.view
    /\ snapshot' = r.snapshot
    /\ docs' = r.docs
    /\ computedAt' = r.computedAt
    /\ fresh' = r.fresh
    /\ lastGood' = r.lastGood
    /\ lastValue' = r.lastValue
    /\ queryFailed' = r.queryFailed
    /\ UNCHANGED <<store, clock>>

\* A page load or a widget interaction: the script runs once.
Render(ok) ==
    \E r \in Script(ok, cache, Ghost) : Display(r, "render")

\* A click on the refresh button (lines 191-193): the script runs with the
\* button pressed, clears the cache at its end and runs again. A first run
\* that raises never reaches the button.
Refresh(ok1, ok2) ==
    \E r1 \in Script(ok1, cache, Ghost) :
        IF r1.raised
        THEN Display(r1, "render")
        ELSE \E r2 \in Script(ok2, <<>>,
                              [snapshot |-> r1.snapshot, docs |-> r1.docs,
                               computedAt |-> None, lastGood |-> r1.lastGood,
                               lastValue |-> r1.lastValue,
                               queryFailed |-> r1.queryFailed]) :
                Display(r2, "refresh")

Next ==
    \/ \E d \in Documents : StoreWrite(d)
    \/ Tick
    \/ \E ok \in BOOLEAN : Render(ok)
    \/ \E ok1, ok2 \in BOOLEAN : Refresh(ok1, ok2)

Spec == Init /\ [][Next]_vars

\* fetch_lambda_f_data called on its own, with a client or with None.
FetchCall(client, ok) ==
    \E r \in Call(client, ok, cache, Ghost) :
        /\ cache' = r.cache
        /\ lastRun' = "fetch"
        /\ history' = r.history
        /\ queried' = r.queried
        /\ diag' = r.diag
        /\ raised' = r.raised
        /\ snapshot' = r.snapshot
        /\ docs' = r.docs
        /\ computedAt' = r.computedAt
        /\ fresh' = r.fresh
        /\ lastGood' = r.lastGood
    /\ lastValue' = r.lastValue
    /\ queryFailed' = r.queryFailed
        /\ UNCHANGED <<store, clock, view>>

\* st.cache_data.clear() (line 192).
Invalidate ==
    /\ cache' = <<>>
    /\ computedAt' = None
    /\ UNCHANGED <<store, clock, lastRun, history, queried, diag, raised, view,
                   snapshot, docs, fresh, lastGood, lastValue, queryFailed>>

NextFetch ==
    \/ \E d \in Documents : StoreWrite(d)
    \/ Tick
    \/ \E client \in Clients, ok \in BOOLEAN : FetchCall(client, ok)
    \/ Invalidate

SpecFetch == Init /\ [][NextFetch]_vars

----------------------------------------------------------------------------
(* Properties *)

Ran == lastRun # "none"

Rows == 1..Len(history)

Shown == view.metric # <<>>

\* The rows of a frame as a bag.
RowBag(df) ==
    [r \in {df[i] : i \in 1..Len(df)} |->
        Cardinality({i \in 1..Len(df) : df[i] = r})]

\* How many documents of s are newer than instant t.
NewerThan(s, t) ==
    BagCardinality([d \in {x \in DOMAIN s : x.timestamp > t} |-> s[d]])

C2_NoExceptionEscapes ==
    lastRun = "fetch" =>
        /\ ~raised
        /\ (~queried /\ ~fresh) => (history = <<>> /\ ~diag)
        /\ (queried /\ queryFailed) => (history = <<>> /\ diag)
        /\ (queried /\ ~queryFailed
              /\ \E d \in DOMAIN docs : d.timestamp = BadTs /\ d.lambda_F # None)
            => (history = <<>> /\ diag)
        /\ (queried /\ ~queryFailed /\ docs = EmptyBag) => (history = <<>> /\ ~diag)

\* A call whose query answered with a document that cannot be converted.
C2_Witness ==
    /\ lastRun = "fetch" /\ queried /\ ~queryFailed /\ diag
    /\ \E d \in DOMAIN docs : d.timestamp = BadTs

C4_ServesLastSuccess ==
    (Ran /\ ~queried /\ lastGood # <<>>) => history = lastGood[1]

\* The classification of section 3: the two breakpoints 0.5 and 0.7.
Classification(lam) ==
    IF lam <= 500 THEN "Normal" ELSE IF lam <= 700 THEN "Risky" ELSE "Critical"

\* The band a display level stands for.
PresentedBand(level) ==
    IF level = "error" THEN "Critical"
    ELSE IF level = "warning" THEN "Risky"
    ELSE "Normal"

\* C5: the risk band presented for the latest record is the band of its
\* lambda_F, whatever status the store attached to it.
C5_BandFollowsScore ==
    Shown => PresentedBand(view.metric[1].level) = Classification(view.metric[1].value)

\* C6: delta is the lambda_F of the last record minus that of the record
\* before it, and the lambda_F of the only record of a one-record history.
C6_DeltaLaw ==
    Shown =>
        LET n == Len(history)
        IN  /\ n = 1 => view.metric[1].delta = history[1].lambda_F
            /\ n > 1 => view.metric[1].delta
                          = history[n].lambda_F - history[n - 1].lambda_F

\* A history of three or more records whose first record differs in score
\* from the one before the last, and whose delta is not zero.
C6_Witness ==
    /\ Shown /\ Len(history) > 2
    /\ history[1].lambda_F # history[Len(history) - 1].lambda_F
    /\ view.metric[1].delta # 0

\* C7: a history has at most 30 records, each of them a document of the
\* store as it was at query time with fewer than 30 documents newer than it.
C7_LimitMostRecent ==
    Ran =>
        /\ Len(history) <= QueryLimit
        /\ \A i \in Rows :
              /\ NewerThan(snapshot, history[i].timestamp) < QueryLimit
              /\ \E d \in DOMAIN snapshot :
                    /\ d.timestamp = history[i].timestamp
                    /\ d.lambda_F = history[i].lambda_F

\* The store held more than 30 documents, the query returned one without a
\* score, and an older document with a score stayed out of the history.
C7_Witness ==
    /\ Ran /\ queried /\ BagCardinality(snapshot) > QueryLimit
    /\ \E d \in DOMAIN docs : d.lambda_F = None
    /\ Len(history) < QueryLimit
    /\ \E d \in DOMAIN snapshot :
          /\ d.timestamp # None /\ d.lambda_F # None
          /\ \A i \in Rows : history[i].timestamp > d.timestamp

\* The row that stands for document d.
RowOf(d) ==
    [timestamp |-> d.timestamp, lambda_F |-> d.lambda_F,
     status |-> IF d.status = NoStatus THEN "N/A" ELSE d.status]

\* C8: the history of a fetch that did not fail holds exactly the queried
\* documents that have a timestamp and a lambda_F, each as often as the
\* query returned it, with lambda_F and status as stored and "N/A" for a
\* missing status.
C8_ExactlyTheValidEntries ==
    (Ran /\ ~diag) =>
        LET valid == {d \in DOMAIN docs : d.timestamp # None /\ d.lambda_F # None}
        IN  /\ \A d \in valid : CopiesIn(RowOf(d), RowBag(history)) = docs[d]
            /\ \A i \in Rows : \E d \in valid : history[i] = RowOf(d)

\* The query returned a document without a score, one without a status and
\* several with the same timestamp.
C8_Witness ==
    /\ Ran /\ queried /\ ~diag
    /\ \E d \in DOMAIN docs : d.lambda_F = None
    /\ \E i \in Rows : history[i].status = "N/A"
    /\ \E i, j \in Rows : i # j /\ history[i].timestamp = history[j].timestamp

\* C9: the metrics are computed only for a non-empty history. A run with an
\* empty history ends without an exception, builds no chart and shows the
\* no-data messages in place of the metrics, the chart and the table.
C9_EmptyHistoryGuarded ==
    lastRun \in {"render", "refresh"} =>
        /\ Shown => history # <<>>
        /\ history = <<>> =>
              /\ ~raised
              /\ view.metric = <<>> /\ view.warning
              /\ view.chart = <<>> /\ view.chartInfo
              /\ ~view.table /\ view.tableInfo

\* A run whose query failed.
C9_Witness ==
    lastRun \in {"render", "refresh"} /\ queried /\ queryFailed /\ history = <<>>

====
